---- MODULE Spec2Model ----
(***************************************************************************)
(* Model of miniservicio-auth/index.js: the in-memory token store          *)
(* (tokensTemporales), the POST /enviar-token handler (split at its        *)
(* `await transporter.sendMail`), the /token-enviado lookups               *)
(* (obtenerToken), the setInterval sweeper and the wall clock.             *)
(*                                                                         *)
(* Time is in milliseconds, as Date.now().  A JavaScript Map is modelled    *)
(* as the insertion-ordered sequence of its [k, v] entries.  The value     *)
(* `undefined` of a missing body/query field is the string Undefined.      *)
(* process.env.TOKEN_EXP_MIN is taken to be unset (the `|| 15` default).    *)
(* A handler suspended at the await is its closure {correo, tipo, token};   *)
(* the handlers in flight form a bag, since nothing else tells them apart.  *)
(***************************************************************************)
EXTENDS Integers, Sequences, FiniteSets, Bags, TLC

\* ---------------------------------------------------------------- bounds
MaxReqs == 2      \* POST /enviar-token requests that pass validation
Horizonte == 900001  \* the wall clock stops here, ms

\* ------------------------------------------------------ program constants
TokenExpMinDefault == 15
MsPorMinuto == 60000
IntervaloLimpieza == 10 * 60 * 1000
TokenLen == 8

\* -------------------------------------------------------------- inputs
Undefined == "<undefined>"
Correos == {"ana@x.com", "bo@x.com"}
CorreoInputs == Correos \cup {Undefined}
TiposValidos == {"registro", "recuperacion"}
TipoInputs == TiposValidos \cup {"otro", ""}
\* amounts by which the wall clock advances between two steps
TickSteps == {900000, 900001}
\* ms by which the clock advances between two reads in one handler
Skews == {0, 1}
\* outputs of crypto.randomBytes(6).toString("base64"): 8 base64 digits
Base64Samples ==
  { <<"A", "b", "3", "d", "E", "9", "x", "Z">>,
    <<"q", "7", "+", "m", "2", "/", "s", "T">> }

VARIABLES
  tokensTemporales,  \* the Map correo -> {token, tipo, creado, expira}
  now,               \* the wall clock, ms
  tokensCounter,     \* prom-client counter auth_tokens_generated_total
  enVuelo,           \* bag of the handlers awaiting transporter.sendMail
  res,               \* the last HTTP response sent
  proximaLimpieza,   \* earliest time the sweeper timer fires next
  hist               \* history: the commits in order, the last failed send

vars == <<tokensTemporales, now, tokensCounter, enVuelo, res,
          proximaLimpieza, hist>>

\* ------------------------------------------------------- JavaScript bits
\* !v for the values a JSON body / query string field takes here
Falsy(v) == v = Undefined \/ v = ""

\* ahora > data.expira
ExpiradoMutGe(ahora, expira) == ahora >= expira
Expirado(ahora, expira) == ahora > expira

\* Number(process.env.TOKEN_EXP_MIN || 15) * 60000 with the variable unset
TtlMs == TokenExpMinDefault * MsPorMinuto

\* /\W/ on a base64 digit: only "+" and "/" are non-word characters
EsNoPalabra(ch) == ch \in {"+", "/"}

\* crypto.randomBytes(6).toString("base64").replace(/\W/g, "").substring(0, 8)
generarToken(b64) ==
  LET limpio == SelectSeq(b64, LAMBDA ch : ~EsNoPalabra(ch))
  IN  IF Len(limpio) > TokenLen THEN SubSeq(limpio, 1, TokenLen) ELSE limpio

\* ------------------------------------------------------------ Map (JS)
MapIndex(m, k) ==
  IF \E i \in 1..Len(m) : m[i].k = k
    THEN CHOOSE i \in 1..Len(m) : m[i].k = k /\ \A j \in 1..(i - 1) : m[j].k # k
    ELSE 0

MapHas(m, k) == MapIndex(m, k) # 0

\* defined when MapHas(m, k)
MapGet(m, k) == m[MapIndex(m, k)].v

MapSetMutAppend(m, k, v) == Append(m, [k |-> k, v |-> v])
MapSet(m, k, v) ==
  IF MapHas(m, k)
    THEN [m EXCEPT ![MapIndex(m, k)] = [k |-> k, v |-> v]]
    ELSE Append(m, [k |-> k, v |-> v])

MapDeleteMutClear(m, k) == IF MapIndex(m, k) = 0 THEN m ELSE <<>>
MapDelete(m, k) ==
  LET i == MapIndex(m, k)
  IN  IF i = 0 THEN m ELSE SubSeq(m, 1, i - 1) \o SubSeq(m, i + 1, Len(m))

MapKeys(m) == {m[i].k : i \in 1..Len(m)}

\* ------------------------------------------------------------ responses
SinToken == <<>>
RespBase ==
  [status |-> 0, texto |-> "", correo |-> "", token |-> SinToken, tipo |-> "",
   creado |-> -1, expira |-> -1, timestamp |-> -1, messageId |-> 0]

RespError(status, texto) == [RespBase EXCEPT !.status = status, !.texto = texto]

\* res.json({mensaje: "Token disponible", correo, token, tipo, creado, expira})
RespToken(correo, data) ==
  [RespBase EXCEPT !.status = 200, !.texto = "Token disponible",
                   !.correo = correo, !.token = data.token, !.tipo = data.tipo,
                   !.creado = data.creado, !.expira = data.expira]

\* res.json({mensaje, token, tipo, timestamp, messageId})
RespEnviado(token, tipo, timestamp, messageId) ==
  [RespBase EXCEPT !.status = 200, !.texto = "Correo enviado correctamente",
                   !.token = token, !.tipo = tipo, !.timestamp = timestamp,
                   !.messageId = messageId]

\* ------------------------------------------------------------------ Init
Init ==
  /\ tokensTemporales = <<>>
  /\ now = 0
  /\ tokensCounter = 0
  /\ enVuelo = EmptyBag
  /\ res = RespBase
  /\ proximaLimpieza = IntervaloLimpieza
  /\ hist = [commits |-> <<>>, fallo |-> "", fallos |-> 0]

\* The wall clock advances between two callbacks.
Tick ==
  /\ \E d \in TickSteps : now + d <= Horizonte /\ now' = now + d
  /\ UNCHANGED <<tokensTemporales, tokensCounter, enVuelo, res,
                 proximaLimpieza, hist>>

\* ------------------------------------------------ POST /enviar-token
\* The 400 answer of the validation at the top of the handler, "" if it passes.
ValidarEnvioMutSinTipo(correo, tipo) ==
  IF Falsy(correo) \/ Falsy(tipo) THEN "Faltan datos: correo o tipo" ELSE ""
ValidarEnvio(correo, tipo) ==
  IF Falsy(correo) \/ Falsy(tipo) THEN "Faltan datos: correo o tipo"
  ELSE IF tipo # "registro" /\ tipo # "recuperacion"
    THEN "Tipo debe ser 'registro' o 'recuperacion'"
  ELSE ""

\* The subject string, written as <<code point of its first character, the
\* rest of the string>>: U+1F511 (key) and U+1FAAA (identification card).
Subject(tipo) ==
  IF tipo = "recuperacion" THEN <<128273, " Recupera tu cuenta">>
  ELSE <<129706, " Verifica tu cuenta">>

\* the argument of transporter.sendMail; html keeps what the template embeds
Correo(correo, tipo, token) ==
  [to |-> correo, subject |-> Subject(tipo),
   html |-> [subject |-> Subject(tipo), tipo |-> tipo, token |-> token,
             minutos |-> TokenExpMinDefault]]

\* what a handler holds across the await: its locals and the mail it sent
Cierre(correo, tipo, token) ==
  [correo |-> correo, tipo |-> tipo, token |-> token,
   mail |-> Correo(correo, tipo, token)]

Cierres ==
  {Cierre(c, t, generarToken(b)) :
     c \in Correos, t \in TiposValidos, b \in Base64Samples}

\* The handler from its start to `await transporter.sendMail(...)`.
EnviarTokenMutGuardaAntes(correo, tipo) ==
  /\ UNCHANGED <<now, proximaLimpieza, hist>>
  /\ IF ValidarEnvio(correo, tipo) # ""
       THEN /\ res' = RespError(400, ValidarEnvio(correo, tipo))
            /\ UNCHANGED <<tokensCounter, enVuelo, tokensTemporales>>
       ELSE /\ tokensCounter < MaxReqs
            /\ tokensCounter' = tokensCounter + 1
            /\ \E b64 \in Base64Samples :
                 /\ enVuelo' = enVuelo (+) SetToBag({Cierre(correo, tipo, generarToken(b64))})
                 /\ tokensTemporales' =
                      MapSet(tokensTemporales, correo,
                             [token |-> generarToken(b64), tipo |-> tipo,
                              creado |-> now, expira |-> now + TtlMs])
            /\ UNCHANGED res
EnviarTokenMutSinInc(correo, tipo) ==
  /\ UNCHANGED <<tokensTemporales, now, proximaLimpieza, hist>>
  /\ IF ValidarEnvio(correo, tipo) # ""
       THEN /\ res' = RespError(400, ValidarEnvio(correo, tipo))
            /\ UNCHANGED <<tokensCounter, enVuelo>>
       ELSE /\ tokensCounter < MaxReqs
            /\ tokensCounter' = tokensCounter
            /\ \E b64 \in Base64Samples :
                 enVuelo' = enVuelo (+) SetToBag({Cierre(correo, tipo, generarToken(b64))})
            /\ UNCHANGED res
EnviarToken(correo, tipo) ==
  /\ UNCHANGED <<tokensTemporales, now, proximaLimpieza, hist>>
  /\ IF ValidarEnvio(correo, tipo) # ""
       THEN /\ res' = RespError(400, ValidarEnvio(correo, tipo))
            /\ UNCHANGED <<tokensCounter, enVuelo>>
       ELSE /\ tokensCounter < MaxReqs
            /\ tokensCounter' = tokensCounter + 1
            /\ \E b64 \in Base64Samples :
                 enVuelo' = enVuelo (+) SetToBag({Cierre(correo, tipo, generarToken(b64))})
            /\ UNCHANGED res

\* {token, tipo, creado: new Date(), expira: new Date(Date.now() + ttl)}:
\* the clock is read twice, d ms apart
Registro(token, tipo, ahora, d) ==
  [token |-> token, tipo |-> tipo, creado |-> ahora,
   expira |-> ahora + d + TtlMs]

\* history: the commit of handler r with record data, answered with resp
Anotar(h, r, data, resp) ==
  [h EXCEPT !.commits =
     Append(@, [correo |-> r.correo, registro |-> data, mail |-> r.mail,
                token |-> resp.token])]

\* sendMail resolved: the rest of the try block.  The clock is read three
\* times: new Date() for creado, Date.now() d ms later for expira, and
\* new Date() e ms after that for the timestamp of the answer.
EnviarTokenExitoMutSinSet(r) ==
  /\ BagIn(r, enVuelo)
  /\ \E d \in Skews, e \in Skews :
       LET data == Registro(r.token, r.tipo, now, d) IN
       /\ now + d + e <= Horizonte
       /\ now' = now + d + e
       /\ enVuelo' = enVuelo (-) SetToBag({r})
       /\ tokensTemporales' = tokensTemporales
       /\ res' = RespEnviado(r.token, r.tipo, now', Len(hist.commits) + 1)
       /\ hist' = Anotar(hist, r, data, res')
  /\ UNCHANGED <<tokensCounter, proximaLimpieza>>
EnviarTokenExitoMutPrimeroGana(r) ==
  /\ BagIn(r, enVuelo)
  /\ \E d \in Skews, e \in Skews :
       LET data == Registro(r.token, r.tipo, now, d) IN
       /\ now + d + e <= Horizonte
       /\ now' = now + d + e
       /\ enVuelo' = enVuelo (-) SetToBag({r})
       /\ tokensTemporales' =
            IF MapHas(tokensTemporales, r.correo) THEN tokensTemporales
            ELSE MapSet(tokensTemporales, r.correo, data)
       /\ res' = RespEnviado(r.token, r.tipo, now', Len(hist.commits) + 1)
       /\ hist' = Anotar(hist, r, data, res')
  /\ UNCHANGED <<tokensCounter, proximaLimpieza>>
EnviarTokenExito(r) ==
  /\ BagIn(r, enVuelo)
  /\ \E d \in Skews, e \in Skews :
       LET data == Registro(r.token, r.tipo, now, d) IN
       /\ now + d + e <= Horizonte
       /\ now' = now + d + e
       /\ enVuelo' = enVuelo (-) SetToBag({r})
       /\ tokensTemporales' = MapSet(tokensTemporales, r.correo, data)
       /\ res' = RespEnviado(r.token, r.tipo, now', Len(hist.commits) + 1)
       /\ hist' = Anotar(hist, r, data, res')
  /\ UNCHANGED <<tokensCounter, proximaLimpieza>>

\* sendMail rejected: the catch block.
EnviarTokenFalloMutBorra(r) ==
  /\ BagIn(r, enVuelo)
  /\ enVuelo' = enVuelo (-) SetToBag({r})
  /\ res' = RespError(500, "No se pudo enviar el correo")
  /\ hist' = [hist EXCEPT !.fallo = r.correo, !.fallos = @ + 1]
  /\ tokensTemporales' = MapDelete(tokensTemporales, r.correo)
  /\ UNCHANGED <<now, tokensCounter, proximaLimpieza>>
EnviarTokenFalloMutGuarda(r) ==
  /\ BagIn(r, enVuelo)
  /\ enVuelo' = enVuelo (-) SetToBag({r})
  /\ res' = RespError(500, "No se pudo enviar el correo")
  /\ hist' = [hist EXCEPT !.fallo = r.correo, !.fallos = @ + 1]
  /\ tokensTemporales' =
       MapSet(tokensTemporales, r.correo, Registro(r.token, r.tipo, now, 0))
  /\ UNCHANGED <<now, tokensCounter, proximaLimpieza>>
EnviarTokenFalloMutAborta(r) ==
  /\ BagIn(r, enVuelo)
  /\ enVuelo' = EmptyBag
  /\ res' = RespError(500, "No se pudo enviar el correo")
  /\ hist' = [hist EXCEPT !.fallo = r.correo, !.fallos = @ + 1]
  /\ UNCHANGED <<tokensTemporales, now, tokensCounter, proximaLimpieza>>
EnviarTokenFallo(r) ==
  /\ BagIn(r, enVuelo)
  /\ enVuelo' = enVuelo (-) SetToBag({r})
  /\ res' = RespError(500, "No se pudo enviar el correo")
  /\ hist' = [hist EXCEPT !.fallo = r.correo, !.fallos = @ + 1]
  /\ UNCHANGED <<tokensTemporales, now, tokensCounter, proximaLimpieza>>

\* ------------------------------------------------------- /token-enviado
\* obtenerToken(correo, res) at time ahora: the Map afterwards and the answer
obtenerTokenMutSinDelete(m, correo, ahora) ==
  IF ~MapHas(m, correo)
    THEN [mapa |-> m,
          res |-> RespError(404, "No se encontró token reciente para este correo")]
  ELSE IF Expirado(ahora, MapGet(m, correo).expira)
    THEN [mapa |-> m, res |-> RespError(410, "El token ha expirado")]
  ELSE [mapa |-> m, res |-> RespToken(correo, MapGet(m, correo))]
obtenerTokenMutConsume(m, correo, ahora) ==
  IF ~MapHas(m, correo)
    THEN [mapa |-> m,
          res |-> RespError(404, "No se encontró token reciente para este correo")]
  ELSE IF Expirado(ahora, MapGet(m, correo).expira)
    THEN [mapa |-> MapDelete(m, correo),
          res |-> RespError(410, "El token ha expirado")]
  ELSE [mapa |-> MapDelete(m, correo),
        res |-> RespToken(correo, MapGet(m, correo))]
obtenerToken(m, correo, ahora) ==
  IF ~MapHas(m, correo)
    THEN [mapa |-> m,
          res |-> RespError(404, "No se encontró token reciente para este correo")]
  ELSE IF Expirado(ahora, MapGet(m, correo).expira)
    THEN [mapa |-> MapDelete(m, correo),
          res |-> RespError(410, "El token ha expirado")]
  ELSE [mapa |-> m, res |-> RespToken(correo, MapGet(m, correo))]

\* the body shared by app.post and app.get("/token-enviado")
TokenEnviadoMutSinValidar(correo) ==
  /\ UNCHANGED <<now, tokensCounter, enVuelo, proximaLimpieza, hist>>
  /\ LET r == obtenerToken(tokensTemporales, correo, now) IN
     /\ res' = r.res
     /\ tokensTemporales' = r.mapa
TokenEnviado(correo) ==
  /\ UNCHANGED <<now, tokensCounter, enVuelo, proximaLimpieza, hist>>
  /\ IF Falsy(correo)
       THEN /\ res' = RespError(400, "Falta el correo")
            /\ UNCHANGED tokensTemporales
       ELSE LET r == obtenerToken(tokensTemporales, correo, now) IN
            /\ res' = r.res
            /\ tokensTemporales' = r.mapa

\* app.post("/token-enviado"): correo from req.body
TokenEnviadoPost(correo) == TokenEnviado(correo)

\* app.get("/token-enviado"): correo from req.query
TokenEnviadoGet(correo) == TokenEnviado(correo)

\* ------------------------------------------------------------- sweeper
\* for (const [correo, data] of tokensTemporales.entries())
\*   if (ahora > data.expira) tokensTemporales.delete(correo);
\* i is the position of the iterator; a deletion moves the next entry to i.
RECURSIVE LimpiezaDesdeMutSalta(_, _, _)
LimpiezaDesdeMutSalta(m, i, ahora) ==
  IF i > Len(m) THEN m
  ELSE IF Expirado(ahora, m[i].v.expira)
    THEN LimpiezaDesdeMutSalta(MapDelete(m, m[i].k), i + 1, ahora)
  ELSE LimpiezaDesdeMutSalta(m, i + 1, ahora)
RECURSIVE LimpiezaDesdeMutTodo(_, _, _)
LimpiezaDesdeMutTodo(m, i, ahora) ==
  IF i > Len(m) THEN m
  ELSE LimpiezaDesdeMutTodo(MapDelete(m, m[i].k), i, ahora)
RECURSIVE LimpiezaDesde(_, _, _)
LimpiezaDesde(m, i, ahora) ==
  IF i > Len(m) THEN m
  ELSE IF Expirado(ahora, m[i].v.expira)
    THEN LimpiezaDesde(MapDelete(m, m[i].k), i, ahora)
  ELSE LimpiezaDesde(m, i + 1, ahora)

\* The setInterval callback; the timer fires no earlier than its interval.
LimpiezaMutSinBorrar ==
  /\ now >= proximaLimpieza
  /\ tokensTemporales' = tokensTemporales
  /\ proximaLimpieza' = now + IntervaloLimpieza
  /\ UNCHANGED <<now, tokensCounter, enVuelo, res, hist>>
Limpieza ==
  /\ now >= proximaLimpieza
  /\ tokensTemporales' = LimpiezaDesde(tokensTemporales, 1, now)
  /\ proximaLimpieza' = now + IntervaloLimpieza
  /\ UNCHANGED <<now, tokensCounter, enVuelo, res, hist>>

Next ==
  \/ Tick
  \/ \E correo \in CorreoInputs, tipo \in TipoInputs : EnviarToken(correo, tipo)
  \/ \E r \in Cierres : EnviarTokenExito(r)
  \/ \E r \in Cierres : EnviarTokenFallo(r)
  \/ \E correo \in CorreoInputs : TokenEnviadoPost(correo)
  \/ \E correo \in CorreoInputs : TokenEnviadoGet(correo)
  \/ Limpieza

Spec == Init /\ [][Next]_vars

\* ------------------------------------------------ the timer keeps firing
\* The clock reaches the time the setInterval timer is due.  Followed only
\* while the Map holds an entry, so that the clock stays bounded.
Vencimiento ==
  /\ now < proximaLimpieza
  /\ tokensTemporales # <<>>
  /\ now' = proximaLimpieza
  /\ UNCHANGED <<tokensTemporales, tokensCounter, enVuelo, res,
                 proximaLimpieza, hist>>

NextVivo == Next \/ Vencimiento

\* Time passes and the event loop runs the setInterval callback once due.
SpecVivo ==
  Init /\ [][NextVivo]_vars /\ WF_vars(Vencimiento) /\ WF_vars(Limpieza)

\* ------------------------------------------- a request already in flight
\* The handler of the first POST /enviar-token, suspended at its await.
CierrePrimero == Cierre("ana@x.com", "registro", generarToken(<<"A","b","3","d","E","9","x","Z">>))

\* The server right after that first request reached `await sendMail`:
\* Init followed by EnviarToken("ana@x.com", "registro").
InitCarrera ==
  /\ tokensTemporales = <<>>
  /\ now = 0
  /\ tokensCounter = 1
  /\ enVuelo = SetToBag({CierrePrimero})
  /\ res = RespBase
  /\ proximaLimpieza = IntervaloLimpieza
  /\ hist = [commits |-> <<>>, fallo |-> "", fallos |-> 0]

SpecCarrera == InitCarrera /\ [][Next]_vars


\* ================================================================ claims
\* index in hist.commits of the last commit for correo c, 0 if none
Ultimo(c) ==
  LET I == {i \in 1..Len(hist.commits) : hist.commits[i].correo = c}
  IN  IF I = {} THEN 0 ELSE CHOOSE i \in I : \A j \in I : j <= i

\* the record the last issuance for c committed
Comprometido(c) == hist.commits[Ultimo(c)].registro

\* what a 200 answer of /token-enviado says about the record
RegistroDe(r) ==
  [token |-> r.token, tipo |-> r.tipo, creado |-> r.creado, expira |-> r.expira]

\* C1: when an issuance has committed for an address, no other has since and
\* the clock has not passed the expira it set, a lookup for the address
\* answers 200 with the token and the tipo of that issuance.
C1_EmitirYConsultar ==
  [][\A c \in Correos :
       (/\ TokenEnviado(c)
        /\ Ultimo(c) # 0
        /\ now <= Comprometido(c).expira)
       => /\ res'.status = 200
          /\ res'.token = hist.commits[Ultimo(c)].token
          /\ res'.tipo = hist.commits[Ultimo(c)].mail.html.tipo]_vars

C1_Witness ==
  /\ res.status = 200
  /\ res.texto = "Token disponible"
  /\ Ultimo(res.correo) # 0
  /\ res.token = hist.commits[Ultimo(res.correo)].token
  /\ res.tipo = "recuperacion"

\* C2: a lookup for an address answers 200 exactly when the Map has an entry
\* for it and now <= expira of that entry; now = expira still succeeds.
C2_ExitoSiiVigente ==
  [][\A c \in Correos :
       TokenEnviado(c)
       => (res'.status = 200
           <=> (/\ MapHas(tokensTemporales, c)
                /\ now <= MapGet(tokensTemporales, c).expira))]_vars

C2_Witness ==
  /\ res.status = 200
  /\ res.texto = "Token disponible"
  /\ now = res.expira
  /\ MapHas(tokensTemporales, res.correo)

\* C3: a lookup that finds an entry with now > expira answers 410 and the
\* entry is gone after that step; an absent entry comes back only through the
\* commit of an issuance for that address; a lookup on an absent entry
\* answers 404.  Hence every later lookup answers 404 until a new issuance.
C3_DesalojoPerezoso ==
  [][\A c \in Correos :
       IF MapHas(tokensTemporales, c)
         THEN (now > MapGet(tokensTemporales, c).expira /\ TokenEnviado(c))
              => (res'.status = 410 /\ ~MapHas(tokensTemporales', c))
         ELSE /\ MapHas(tokensTemporales', c)
                 => \E r \in Cierres : r.correo = c /\ EnviarTokenExito(r)
              /\ TokenEnviado(c) => res'.status = 404]_vars

\* a 410 was answered and the record is gone although no sweep has run
C3_Witness ==
  /\ res.status = 410
  /\ proximaLimpieza = IntervaloLimpieza
  /\ \E c \in Correos : Ultimo(c) # 0 /\ ~MapHas(tokensTemporales, c)

\* C4: the Map never holds two entries with the same correo; a commit
\* replaces the entry of its address, and a successful lookup returns the
\* token of the last request committed for the address.
UnaPorCorreo ==
  \A i, j \in 1..Len(tokensTemporales) :
    tokensTemporales[i].k = tokensTemporales[j].k => i = j

C4_UnaPorCorreoYReemplazo ==
  /\ []UnaPorCorreo
  /\ [][/\ \A r \in Cierres :
             EnviarTokenExito(r)
             => /\ MapHas(tokensTemporales', r.correo)
                /\ MapGet(tokensTemporales', r.correo).token = r.token
                /\ MapKeys(tokensTemporales')
                     = MapKeys(tokensTemporales) \cup {r.correo}
                /\ Len(tokensTemporales') = Cardinality(MapKeys(tokensTemporales'))
        /\ \A c \in Correos :
             (TokenEnviado(c) /\ res'.status = 200)
             => (Ultimo(c) # 0 /\ res'.token = Comprometido(c).token)]_vars

\* two issuances committed for one address with different tokens, the first
\* not yet expired, and the lookup returned the token committed last
C4_Witness ==
  /\ Len(hist.commits) = 2
  /\ hist.commits[1].correo = hist.commits[2].correo
  /\ hist.commits[1].token # hist.commits[2].token
  /\ now <= hist.commits[1].registro.expira
  /\ res.status = 200
  /\ res.texto = "Token disponible"
  /\ res.correo = hist.commits[2].correo
  /\ res.token = hist.commits[2].token

\* C5 as stated: right after an issuance fails at the mail send, a lookup for
\* its address answers 404, whatever the Map held before.
C5_Original ==
  [][\A r \in Cierres :
       EnviarTokenFallo(r)
       => obtenerToken(tokensTemporales', r.correo, now').res.status = 404]_vars

\* C5 amended: an issuance that fails at the mail send answers 500 and leaves
\* the Map as it was; a lookup right after it answers 404 when the address
\* had no entry, and answers from the earlier entry when it had one.
C5_FalloSinCommit ==
  [][\A r \in Cierres :
       EnviarTokenFallo(r)
       => /\ res'.status = 500
          /\ res'.texto = "No se pudo enviar el correo"
          /\ tokensTemporales' = tokensTemporales
          /\ ~MapHas(tokensTemporales, r.correo)
             => obtenerToken(tokensTemporales', r.correo, now').res.status = 404
          /\ (MapHas(tokensTemporales, r.correo)
              /\ now <= MapGet(tokensTemporales, r.correo).expira)
             => obtenerToken(tokensTemporales', r.correo, now').res
                  = RespToken(r.correo, MapGet(tokensTemporales, r.correo))]_vars

\* the last issuance failed for an address that holds an unexpired record
C5_Witness ==
  /\ res.status = 500
  /\ hist.fallo \in Correos
  /\ MapHas(tokensTemporales, hist.fallo)
  /\ now <= MapGet(tokensTemporales, hist.fallo).expira

\* C6: POST /enviar-token with a missing correo, a missing tipo or a tipo
\* other than registro/recuperacion answers 400 and calls sendMail for
\* nothing, generates no token, leaves the counter and the Map unchanged
\* (every step is such an answer or is no POST /enviar-token with such input).
EntradasInvalidas ==
  {e \in CorreoInputs \X TipoInputs :
     Falsy(e[1]) \/ Falsy(e[2]) \/ e[2] \notin TiposValidos}

C6_ValidacionSinEfectos ==
  [][\/ /\ res'.status = 400
        /\ UNCHANGED <<enVuelo, tokensCounter, tokensTemporales, hist>>
     \/ \A e \in EntradasInvalidas : ~EnviarToken(e[1], e[2])]_vars

C6_Witness ==
  /\ res.status = 400
  /\ res.texto = "Tipo debe ser 'registro' o 'recuperacion'"
  /\ tokensCounter > 0

\* C7: every entry of the Map is the record committed by the last issuance
\* for its address that got its mail sent: the mail went to that address and
\* carried the entry's token, which is also the token answered to the caller;
\* so the Map holds at most as many entries as sends were confirmed.
C7_SoloEnviosConfirmados ==
  /\ \A i \in 1..Len(tokensTemporales) :
       LET e == tokensTemporales[i] IN
       /\ Ultimo(e.k) # 0
       /\ e.v = Comprometido(e.k)
       /\ hist.commits[Ultimo(e.k)].mail.to = e.k
       /\ hist.commits[Ultimo(e.k)].mail.html.token = e.v.token
       /\ hist.commits[Ultimo(e.k)].token = e.v.token
  /\ res.texto = "Correo enviado correctamente"
     => /\ res.messageId = Len(hist.commits)
        /\ hist.commits[res.messageId].mail.html.token = res.token
        /\ hist.commits[res.messageId].registro.token = res.token

\* the Map holds the record of a confirmed send and none for the address
\* whose send failed
C7_Witness ==
  /\ Len(tokensTemporales) = 1
  /\ hist.fallo \in Correos
  /\ ~MapHas(tokensTemporales, hist.fallo)
  /\ now <= tokensTemporales[1].v.expira

\* C8: a sweep pass removes exactly the entries with now > expira and leaves
\* the others as they were, in their order.
Vigentes(m, ahora) == SelectSeq(m, LAMBDA e : ahora <= e.v.expira)

C8_Limpieza ==
  [][Limpieza
     => /\ tokensTemporales' = Vigentes(tokensTemporales, now)
        /\ \A i \in 1..Len(tokensTemporales') :
             now' <= tokensTemporales'[i].v.expira]_vars

\* the first commit's record was still valid when the second committed for
\* another address, no lookup was answered since, and now the first record
\* is expired and gone while the second is there: the sweeper removed it
C8_Witness ==
  /\ Len(hist.commits) = 2
  /\ hist.commits[1].correo # hist.commits[2].correo
  /\ hist.commits[2].registro.creado <= hist.commits[1].registro.expira
  /\ res.texto = "Correo enviado correctamente"
  /\ now > hist.commits[1].registro.expira
  /\ ~MapHas(tokensTemporales, hist.commits[1].correo)
  /\ MapHas(tokensTemporales, hist.commits[2].correo)
  /\ MapGet(tokensTemporales, hist.commits[2].correo) = hist.commits[2].registro

\* C9: a lookup that answers 200 leaves the Map unchanged and returns the
\* record exactly as the last issuance for the address committed it.
C9_ConsultaNoDestructiva ==
  [][\A c \in Correos :
       (TokenEnviado(c) /\ res'.status = 200)
       => /\ tokensTemporales' = tokensTemporales
          /\ Ultimo(c) # 0
          /\ res'.correo = c
          /\ RegistroDe(res') = Comprometido(c)]_vars

\* a lookup answered 200 some time after the commit and the record is still
\* in the Map
C9_Witness ==
  /\ res.status = 200
  /\ res.texto = "Token disponible"
  /\ now > res.creado
  /\ MapHas(tokensTemporales, res.correo)
  /\ MapGet(tokensTemporales, res.correo) = RegistroDe(res)

\* C10: a lookup for an address without an entry answers 404 and leaves the
\* Map unchanged; a lookup without correo answers 400 and leaves it unchanged.
C10_NoEncontradoYValidacion ==
  [][\A c \in CorreoInputs :
       TokenEnviado(c)
       => /\ Falsy(c)
             => /\ res'.status = 400
                /\ res'.texto = "Falta el correo"
                /\ tokensTemporales' = tokensTemporales
          /\ (~Falsy(c) /\ ~MapHas(tokensTemporales, c))
             => /\ res'.status = 404
                /\ tokensTemporales' = tokensTemporales]_vars

\* 404 for an address whose record was issued and has since been removed
C10_Witness ==
  /\ res.status = 404
  /\ \E c \in Correos : Ultimo(c) # 0 /\ ~MapHas(tokensTemporales, c)

\* C11: when two issuances for one address are in flight together and both
\* mails are sent, each commit leaves exactly one entry for the address and
\* that entry is the record of the handler that committed in this step; so
\* the Map ends with the record of the commit that landed last, whichever
\* request was made first.
C11_UltimoCommitGana ==
  [][\A r \in Cierres :
       EnviarTokenExito(r)
       => /\ Cardinality({i \in 1..Len(tokensTemporales') :
                            tokensTemporales'[i].k = r.correo}) = 1
          /\ MapGet(tokensTemporales', r.correo).token = r.token
          /\ MapGet(tokensTemporales', r.correo).tipo = r.tipo
          /\ MapGet(tokensTemporales', r.correo)
               = hist'.commits[Len(hist'.commits)].registro
          /\ res'.token = r.token]_vars

\* the request that was in flight from the start committed second, after a
\* later request for the same address with another token had committed while
\* it was waiting; the Map holds one entry, the record of the second commit
C11_Witness ==
  /\ tokensCounter = 2
  /\ Len(hist.commits) = 2
  /\ hist.commits[1].correo = CierrePrimero.correo
  /\ hist.commits[1].token # CierrePrimero.token
  /\ hist.commits[2].mail = CierrePrimero.mail
  /\ Len(tokensTemporales) = 1
  /\ tokensTemporales[1].k = CierrePrimero.correo
  /\ tokensTemporales[1].v = hist.commits[2].registro
  /\ tokensTemporales[1].v.token = CierrePrimero.token

\* C12: with the timer firing, an entry whose expira has passed does not stay
\* in the Map for ever, also when no lookup is made; and a sweep pass leaves
\* no entry that had now > expira when it ran.
HayExpirado(c) ==
  /\ MapHas(tokensTemporales, c)
  /\ now > MapGet(tokensTemporales, c).expira

C12_ExpiradoSeElimina ==
  /\ \A c \in Correos : HayExpirado(c) ~> ~HayExpirado(c)
  /\ [][Limpieza
        => \A c \in Correos :
             HayExpirado(c) => ~MapHas(tokensTemporales', c)]_vars

\* one issuance committed and nothing was answered since (no lookup); a first
\* sweep pass kept its record, a later pass ran after expira and the Map is
\* empty
C12_Witness ==
  /\ Len(hist.commits) = 1
  /\ hist.fallo = ""
  /\ res = RespEnviado(hist.commits[1].token, hist.commits[1].registro.tipo,
                       res.timestamp, 1)
  /\ hist.commits[1].registro.creado < IntervaloLimpieza
  /\ proximaLimpieza >= 3 * IntervaloLimpieza
  /\ now > hist.commits[1].registro.expira
  /\ tokensTemporales = <<>>

\* C13: tokensCounter never decreases; it grows by one exactly in the step
\* in which a validated POST /enviar-token generates its token and starts the
\* send, and in no other step; so it equals the handlers still waiting for
\* the send plus those that committed plus those that failed, and is at
\* least the number of records ever committed.
C13_Contador ==
  /\ [](/\ tokensCounter
             = BagCardinality(enVuelo) + Len(hist.commits) + hist.fallos
        /\ tokensCounter >= Len(hist.commits))
  /\ [][/\ tokensCounter' >= tokensCounter
        /\ tokensCounter' # tokensCounter
           => /\ tokensCounter' = tokensCounter + 1
              /\ BagCardinality(enVuelo') = BagCardinality(enVuelo) + 1
              /\ UNCHANGED <<tokensTemporales, hist, res>>
        /\ \A c \in Correos, t \in TiposValidos :
             EnviarToken(c, t) => tokensCounter' = tokensCounter + 1]_vars

\* two validated requests: one committed, one failed at the send; the counter
\* is 2 while one record was ever committed
C13_Witness ==
  /\ tokensCounter = 2
  /\ Len(hist.commits) = 1
  /\ hist.fallos = 1
  /\ enVuelo = EmptyBag

\* C14: every entry of the Map has expira = creado + TTL exactly, also when
\* the clock advances between `new Date()` for creado and `Date.now()` for
\* expira.  The handler reads the clock twice, so a millisecond that passes
\* between the two readings ends up in expira.
C14_ExpiraExacta ==
  \A i \in 1..Len(tokensTemporales) :
    tokensTemporales[i].v.expira = tokensTemporales[i].v.creado + TtlMs

\* C15: every callback runs to its end before another starts, so in every
\* step an entry disappears only when that very entry has now > expira and
\* the step is a lookup for its address or a sweep pass; an entry changes
\* only by the commit of an issuance for its address; and an absent entry
\* comes back only as the record that a commit writes in that step.
C15_Atomicidad ==
  [][\A c \in Correos :
       IF MapHas(tokensTemporales, c)
         THEN /\ ~MapHas(tokensTemporales', c)
                 => /\ now > MapGet(tokensTemporales, c).expira
                    /\ TokenEnviado(c) \/ Limpieza
              /\ (/\ MapHas(tokensTemporales', c)
                  /\ MapGet(tokensTemporales', c) # MapGet(tokensTemporales, c))
                 => \E r \in Cierres : r.correo = c /\ EnviarTokenExito(r)
         ELSE MapHas(tokensTemporales', c)
              => /\ \E r \in Cierres : r.correo = c /\ EnviarTokenExito(r)
                 /\ Len(hist'.commits) = Len(hist.commits) + 1
                 /\ MapGet(tokensTemporales', c)
                      = hist'.commits[Len(hist'.commits)].registro]_vars

\* a second issuance for the address committed after the first record had
\* expired; a lookup made after that returned the new record, which is still
\* in the Map although the clock is past the first record's expira
C15_Witness ==
  /\ Len(hist.commits) = 2
  /\ hist.commits[1].correo = hist.commits[2].correo
  /\ hist.commits[2].registro.creado > hist.commits[1].registro.expira
  /\ res.status = 200
  /\ res.texto = "Token disponible"
  /\ res.correo = hist.commits[2].correo
  /\ RegistroDe(res) = hist.commits[2].registro
  /\ MapHas(tokensTemporales, res.correo)
  /\ MapGet(tokensTemporales, res.correo) = hist.commits[2].registro

\* C16: a handler waiting for sendMail can always take either continuation,
\* whatever else has happened; the number of waiting handlers drops only by
\* one handler taking one of the two: the try block, which commits its record
\* and answers 200, or the catch block, which commits nothing and answers
\* 500; every other handler stays waiting.
C16_UnSoloDesenlace ==
  /\ [](\A r \in BagToSet(enVuelo) :
          (ENABLED EnviarTokenExito(r)) /\ (ENABLED EnviarTokenFallo(r)))
  /\ [][BagCardinality(enVuelo') < BagCardinality(enVuelo)
        => \E r \in BagToSet(enVuelo) :
             /\ enVuelo' = enVuelo (-) SetToBag({r})
             /\ \/ /\ EnviarTokenExito(r)
                   /\ res'.status = 200
                   /\ MapGet(tokensTemporales', r.correo).token = r.token
                   /\ Len(hist'.commits) = Len(hist.commits) + 1
                   /\ hist'.fallos = hist.fallos
                \/ /\ EnviarTokenFallo(r)
                   /\ res'.status = 500
                   /\ tokensTemporales' = tokensTemporales
                   /\ hist'.commits = hist.commits
                   /\ hist'.fallos = hist.fallos + 1]_vars

\* while the first request waited for its send, a request for another
\* address started and failed; the first then committed and answered
C16_Witness ==
  /\ tokensCounter = 2
  /\ enVuelo = EmptyBag
  /\ hist.fallos = 1
  /\ hist.fallo # CierrePrimero.correo
  /\ Len(hist.commits) = 1
  /\ hist.commits[1].mail = CierrePrimero.mail
  /\ res.texto = "Correo enviado correctamente"
  /\ MapHas(tokensTemporales, CierrePrimero.correo)

\* C17: the catch block of a failed send changes nothing in the Map, neither
\* the entry of its own address nor any other; and a lookup made right after
\* the 500 for that address, when it holds an unexpired entry from an
\* earlier issuance, answers 200 with that earlier token.
C17_FalloConservaMapa ==
  [][/\ \A r \in Cierres :
          EnviarTokenFallo(r)
          => /\ tokensTemporales' = tokensTemporales
             /\ hist'.commits = hist.commits
             /\ hist'.fallo = r.correo
     /\ \A c \in Correos :
          (/\ res.status = 500
           /\ hist.fallo = c
           /\ TokenEnviado(c)
           /\ MapHas(tokensTemporales, c)
           /\ now <= MapGet(tokensTemporales, c).expira)
          => /\ res'.status = 200
             /\ res'.token = Comprometido(c).token
             /\ res'.token = MapGet(tokensTemporales', c).token]_vars

\* an issuance committed, time passed without reaching its expira, and the
\* last answer is the 500 of a failed issuance for an address whose earlier
\* record is still the one in the Map
C17_Witness ==
  /\ res.status = 500
  /\ hist.fallos = 1
  /\ hist.fallo \in Correos
  /\ Ultimo(hist.fallo) # 0
  /\ MapHas(tokensTemporales, hist.fallo)
  /\ MapGet(tokensTemporales, hist.fallo) = Comprometido(hist.fallo)
  /\ now > Comprometido(hist.fallo).creado
  /\ now <= Comprometido(hist.fallo).expira

\* C18: the step that starts an issuance and leaves it waiting for sendMail
\* does not touch the Map; a lookup for an address with a handler waiting
\* answers 404 when nothing was committed for it, and a 200 carries the
\* record last committed, never what a waiting handler holds; the commit
\* makes the token retrievable and stamps creado with the time of the
\* commit, expira a TTL after it.
EnEspera(c) == \E r \in BagToSet(enVuelo) : r.correo = c

C18_CommitTrasEnvio ==
  [][/\ \A c \in Correos, t \in TiposValidos :
          EnviarToken(c, t) => (tokensTemporales' = tokensTemporales /\ EnEspera(c)')
     /\ \A c \in Correos :
          (EnEspera(c) /\ TokenEnviado(c))
          => /\ res'.status \in {200, 404, 410}
             /\ Ultimo(c) = 0 => res'.status = 404
             /\ res'.status = 200 => RegistroDe(res') = Comprometido(c)
             /\ EnEspera(c)'
     /\ \A r \in Cierres :
          EnviarTokenExito(r)
          => /\ MapGet(tokensTemporales', r.correo).creado = now
             /\ MapGet(tokensTemporales', r.correo).expira >= now + TtlMs
             /\ MapGet(tokensTemporales', r.correo).expira <= now' + TtlMs
             /\ obtenerToken(tokensTemporales', r.correo, now').res
                  = RespToken(r.correo, MapGet(tokensTemporales', r.correo))
             /\ obtenerToken(tokensTemporales', r.correo, now').res.token
                  = r.token]_vars

\* the first request has been waiting for its send since time 0; a later
\* request for the same address with another token committed at a later
\* time, and a lookup for the address answered with that record, whose
\* creado is the commit time, while the first request is still waiting
C18_Witness ==
  /\ tokensCounter = 2
  /\ enVuelo = SetToBag({CierrePrimero})
  /\ Len(hist.commits) = 1
  /\ hist.commits[1].correo = CierrePrimero.correo
  /\ hist.commits[1].token # CierrePrimero.token
  /\ hist.commits[1].registro.creado > 0
  /\ res.status = 200
  /\ res.texto = "Token disponible"
  /\ res.correo = CierrePrimero.correo
  /\ RegistroDe(res) = hist.commits[1].registro

\* C19: a commit for an address and a lookup for an address, whether it
\* answers 200, 404 or 410 and evicts, leave the entry of every other address
\* as it was: present with the same record, or absent.
EntradaDe(m, c) == IF MapHas(m, c) THEN <<MapGet(m, c)>> ELSE <<>>

C19_MarcoOtrosCorreos ==
  [][/\ \A r \in Cierres :
          EnviarTokenExito(r)
          => \A b \in Correos \ {r.correo} :
               EntradaDe(tokensTemporales', b) = EntradaDe(tokensTemporales, b)
     /\ \A c \in Correos :
          TokenEnviado(c)
          => \A b \in Correos \ {c} :
               EntradaDe(tokensTemporales', b) = EntradaDe(tokensTemporales, b)]_vars

\* two addresses were issued a record at different times; no sweep has run;
\* a lookup answered 410 and evicted the older record, and the record of the
\* other address is still in the Map and still valid
C19_Witness ==
  /\ Len(hist.commits) = 2
  /\ hist.commits[1].correo # hist.commits[2].correo
  /\ proximaLimpieza = IntervaloLimpieza
  /\ res.status = 410
  /\ now > hist.commits[1].registro.expira
  /\ now <= hist.commits[2].registro.expira
  /\ tokensTemporales =
       <<[k |-> hist.commits[2].correo, v |-> hist.commits[2].registro]>>
====
